---- MODULE Spec2Model ----
(***************************************************************************)
(* A model of quiplash_editor: the prompt entities of schema versions 1    *)
(* and 3, the conversions between them, and the reader that loads a .pet   *)
(* (JSON) document or a CSV file and serializes it back.                   *)
(*                                                                         *)
(* Python values are tagged tuples <<tag, payload>>: the dataclasses do    *)
(* not enforce their annotations, so a field holds whatever was stored.    *)
(* Text is a sequence of one-character strings, so that str.replace, the   *)
(* `in` test, int() and str() are computed character by character.         *)
(* A dict (a raw record, a CSV row) is a function from its keys.           *)
(***************************************************************************)
EXTENDS Integers, Sequences, FiniteSets, TLC

VARIABLES
    \* --- one run of a reader (specification Spec) ---
    data,            \* self._data['content']: the raw records of the input document
    target_version,  \* the reader class's target_version (1 or 3)
    quip_prompts,    \* self._quip_prompts
    pc,              \* "new", "loaded", "done", "reloaded", "failed"
    op,              \* the last operation called
    to_version_arg,  \* the to_version argument of the last serialization
    error,           \* the exception that ended the run, or "none"
    pet_out,         \* the content list serialize() returned (NoOutput before)
    csvfile,         \* the file serialize_to_csv wrote (NoFile before)
    csv_reader,      \* the reader from_csv_file built from csvfile
    \* --- one prompt entity and its conversions (specification SpecPrompt) ---
    entry,           \* a raw record
    ver,             \* what infer_prompt_version returned (0: not called or raised)
    hist,            \* the last entities built, each with the operation that built it
    perr             \* the exception an entity operation raised, or "none"

vars == <<data, target_version, quip_prompts, pc, op, to_version_arg, error,
          pet_out, csvfile, csv_reader, entry, ver, hist, perr>>
readerVars == <<data, target_version, quip_prompts, pc, op, to_version_arg,
                error, pet_out, csvfile, csv_reader>>
promptVars == <<entry, ver, hist, perr>>

----------------------------------------------------------------------------
\* Bounds of the model.

\* A prompt text is a concatenation of at most MaxPieces pieces.
MaxPieces == 2
\* An input document holds at most MaxDoc records.
MaxDoc == 2
\* hist keeps the last MaxHist entities.
MaxHist == 5

----------------------------------------------------------------------------
\* Python values.

IntV(n) == <<"int", n>>
StrV(s) == <<"str", s>>
BoolV(b) == <<"bool", b>>
ListV(l) == <<"list", l>>
NoneV == <<"none">>

IsInt(v) == v[1] = "int"
IsStr(v) == v[1] = "str"
IsBool(v) == v[1] = "bool"
IsList(v) == v[1] = "list"
IsNone(v) == v[1] = "none"

\* The outcome of an operation that may raise.
Ok(v) == [err |-> "none", val |-> v]
Raise(e) == [err |-> e]

\* key in dict, dict.get(key, default)
Has(d, k) == k \in DOMAIN d
Get(d, k, default) == IF k \in DOMAIN d THEN d[k] ELSE default

----------------------------------------------------------------------------
\* Text.

\* The two spellings of the player-name placeholder.
ANYPLAYER == <<"<", "A", "N", "Y", "P", "L", "A", "Y", "E", "R", ">">>
ANY_PLAYER == <<"<", "A", "N", "Y", " ", "P", "L", "A", "Y", "E", "R", ">">>

SAFETY_QUIPS_DEFAULT ==
    << StrV(<<"j", "u", "s", " ", "d", "e", " ", "g", "o", "u", "i", "l", "l", "e">>),
       StrV(<<"l", "e", " ", "b", "u", "s", "z", "y">>),
       StrV(<<"j", "e", "a", "n", "-", "m", "a", "r", "c">>) >>

\* sub in s
Contains(s, sub) ==
    \E i \in 1..(Len(s) - Len(sub) + 1) : SubSeq(s, i, i + Len(sub) - 1) = sub

\* s.replace(old, new): every occurrence, leftmost first, not overlapping.
RECURSIVE Replace(_, _, _)
Replace(s, old, new) ==
    IF Len(s) < Len(old) THEN s
    ELSE IF SubSeq(s, 1, Len(old)) = old
         THEN new \o Replace(SubSeq(s, Len(old) + 1, Len(s)), old, new)
         ELSE <<s[1]>> \o Replace(Tail(s), old, new)

Digits == <<"0", "1", "2", "3", "4", "5", "6", "7", "8", "9">>
IsDigit(c) == \E d \in 1..10 : Digits[d] = c
DigitVal(c) == (CHOOSE d \in 1..10 : Digits[d] = c) - 1

RECURSIVE Strip(_)
Strip(s) ==
    IF s = <<>> THEN s
    ELSE IF s[1] = " " THEN Strip(Tail(s))
    ELSE IF s[Len(s)] = " " THEN Strip(SubSeq(s, 1, Len(s) - 1))
    ELSE s

RECURSIVE DigitsVal(_, _)
DigitsVal(s, acc) ==
    IF s = <<>> THEN acc
    ELSE IF s[1] = "_" THEN DigitsVal(Tail(s), acc)
    ELSE DigitsVal(Tail(s), 10 * acc + DigitVal(s[1]))

\* The digits of an int literal: digits, single underscores between them.
IsDigitBody(s) ==
    /\ s # <<>>
    /\ IsDigit(s[1]) /\ IsDigit(s[Len(s)])
    /\ \A i \in 1..Len(s) : IsDigit(s[i]) \/ s[i] = "_"
    /\ \A i \in 1..(Len(s) - 1) : ~(s[i] = "_" /\ s[i + 1] = "_")

\* int(text): surrounding blanks, an optional sign, base-10 digits.
ParseInt(s) ==
    LET t == Strip(s)
        signed == t # <<>> /\ t[1] \in {"+", "-"}
        body == IF signed THEN Tail(t) ELSE t
    IN  IF IsDigitBody(body)
        THEN Ok(IF signed /\ t[1] = "-" THEN 0 - DigitsVal(body, 0)
                ELSE DigitsVal(body, 0))
        ELSE Raise("ValueError")

RECURSIVE NatToChars(_)
NatToChars(n) ==
    IF n < 10 THEN <<Digits[n + 1]>>
    ELSE NatToChars(n \div 10) \o <<Digits[(n % 10) + 1]>>

IntToChars(n) == IF n < 0 THEN <<"-">> \o NatToChars(0 - n) ELSE NatToChars(n)

\* int(v)
PyInt(v) ==
    IF IsInt(v) THEN Ok(v[2])
    ELSE IF IsBool(v) THEN Ok(IF v[2] THEN 1 ELSE 0)
    ELSE IF IsStr(v) THEN ParseInt(v[2])
    ELSE Raise("TypeError")

\* str(v)
PyStr(v) ==
    IF IsStr(v) THEN v[2]
    ELSE IF IsInt(v) THEN IntToChars(v[2])
    ELSE IF IsBool(v) THEN (IF v[2] THEN <<"T", "r", "u", "e">>
                            ELSE <<"F", "a", "l", "s", "e">>)
    ELSE <<"N", "o", "n", "e">>

\* bool(v)
PyBool(v) ==
    IF IsBool(v) THEN v[2]
    ELSE IF IsInt(v) THEN v[2] # 0
    ELSE IF IsStr(v) \/ IsList(v) THEN v[2] # <<>>
    ELSE FALSE

----------------------------------------------------------------------------
\* infer_prompt_version(prompt): 3, 1, or 0 for UnknownPromptVersionError.

infer_prompt_version(prompt) ==
    IF Has(prompt, "includes_player_name") THEN 3
    ELSE IF \A a \in {"id", "prompt", "x"} : Has(prompt, a) THEN 1
    ELSE 0

----------------------------------------------------------------------------
\* The prompt entities: QuipPromptV1(id, x, prompt) and
\* QuipPromptV3(id, x, prompt, includes_player_name, safety_quips, us).

QuipPromptV1(id, x, prompt) ==
    [cls |-> "V1", id |-> id, x |-> x, prompt |-> prompt]

QuipPromptV3(id, x, prompt, includes_player_name, safety_quips, us) ==
    [cls |-> "V3", id |-> id, x |-> x, prompt |-> prompt,
     includes_player_name |-> includes_player_name,
     safety_quips |-> safety_quips, us |-> us]

\* A variant of to_quiplashv1 that copies the prompt without substitution.
to_quiplashv1_no_replace(self) ==
    LET id == PyInt(self.id)
    IN  IF id.err # "none" THEN Raise(id.err)
        ELSE IF ~IsStr(self.prompt) THEN Raise("AttributeError")
        ELSE Ok(QuipPromptV1(IntV(id.val), self.x, self.prompt))

\* self.to_quiplashv1(): the keyword arguments are evaluated in order, so
\* int(self.id) raises before self.prompt.replace does.
to_quiplashv1(self) ==
    LET id == PyInt(self.id)
    IN  IF id.err # "none" THEN Raise(id.err)
        ELSE IF ~IsStr(self.prompt) THEN Raise("AttributeError")
        ELSE Ok(QuipPromptV1(IntV(id.val), self.x,
                             StrV(Replace(self.prompt[2], ANYPLAYER, ANY_PLAYER))))

\* A variant of to_quiplashv3 that passes self.id on without str().
to_quiplashv3_id_kept(self) ==
    IF self.cls = "V1"
    THEN IF ~IsStr(self.prompt) THEN Raise("AttributeError")
         ELSE LET prompt == Replace(self.prompt[2], ANY_PLAYER, ANYPLAYER)
              IN  Ok(QuipPromptV3(self.id, self.x, StrV(prompt),
                                  BoolV(Contains(prompt, ANYPLAYER)),
                                  ListV(SAFETY_QUIPS_DEFAULT), BoolV(FALSE)))
    ELSE Ok(self)

\* self.to_quiplashv3(): a V1 entity is converted; any other is rebuilt
\* from asdict(self), field by field.
to_quiplashv3(self) ==
    IF self.cls = "V1"
    THEN IF ~IsStr(self.prompt) THEN Raise("AttributeError")
         ELSE LET prompt == Replace(self.prompt[2], ANY_PLAYER, ANYPLAYER)
                  includes_player_name == Contains(prompt, ANYPLAYER)
              IN  Ok(QuipPromptV3(StrV(PyStr(self.id)), self.x, StrV(prompt),
                                  BoolV(includes_player_name),
                                  ListV(SAFETY_QUIPS_DEFAULT), BoolV(FALSE)))
    ELSE Ok(QuipPromptV3(self.id, self.x, self.prompt, self.includes_player_name,
                         self.safety_quips, self.us))

\* target_version None is written 0.
NoVersion == 0

\* self.to_version(target_version)
to_version(self, version) ==
    IF version = NoVersion THEN Ok(self)
    ELSE IF version = 1 THEN to_quiplashv1(self)
    ELSE IF version = 3 THEN to_quiplashv3(self)
    ELSE Raise("UnknownPromptVersionError")

\* QuipPromptV1.from_pet_entry(entry)
QuipPromptV1_from_pet_entry(e) ==
    LET v == infer_prompt_version(e)
    IN  IF v = 0 THEN Raise("UnknownPromptVersionError")
        ELSE IF v = 1
        THEN LET id == PyInt(e["id"])
             IN  IF id.err # "none" THEN Raise(id.err)
                 ELSE Ok(QuipPromptV1(IntV(id.val), BoolV(PyBool(e["x"])), e["prompt"]))
        ELSE IF ~Has(e, "id") THEN Raise("KeyError")
        ELSE LET id == PyInt(e["id"])
             IN  IF id.err # "none" THEN Raise(id.err)
                 ELSE IF ~Has(e, "prompt") THEN Raise("KeyError")
                 ELSE IF ~IsStr(e["prompt"]) THEN Raise("AttributeError")
                 ELSE Ok(QuipPromptV1(
                          IntV(id.val), BoolV(PyBool(e["prompt"])),
                          StrV(Replace(e["prompt"][2], ANYPLAYER, ANY_PLAYER))))

\* QuipPromptV3.from_pet_entry(entry)
QuipPromptV3_from_pet_entry(e) ==
    LET prompt == Get(e, "prompt", NoneV)
    IN  IF ~IsStr(prompt) THEN Raise("AttributeError")
        ELSE LET q == QuipPromptV3(
                          Get(e, "id", NoneV),
                          Get(e, "x", NoneV),
                          StrV(Replace(prompt[2], ANY_PLAYER, ANYPLAYER)),
                          Get(e, "includesPlayerName", BoolV(FALSE)),
                          Get(e, "safetyQuips", ListV(SAFETY_QUIPS_DEFAULT)),
                          Get(e, "us", BoolV(FALSE)))
             IN  Ok([q EXCEPT !.includes_player_name =
                                  BoolV(Contains(q.prompt[2], ANYPLAYER))])

\* QuipPromptV3.from_csv_entry(entry)
QuipPromptV3_from_csv_entry(e) ==
    Ok(QuipPromptV3(
          Get(e, "id", NoneV),
          Get(e, "x", NoneV),
          Get(e, "prompt", NoneV),
          Get(e, "includes_player_name", NoneV),
          ListV([a \in 1..3 |-> Get(e, "safety_quip_" \o ToString(a), NoneV)]),
          Get(e, "us", NoneV)))

\* QuipPromptV1.to_pet_entry / QuipPromptV3.to_pet_entry
to_pet_entry(self) ==
    IF self.cls = "V1"
    THEN [id |-> self.id, prompt |-> self.prompt, x |-> self.x]
    ELSE [id |-> self.id, includesPlayerName |-> self.includes_player_name,
          prompt |-> self.prompt, safetyQuips |-> self.safety_quips,
          us |-> self.us, x |-> self.x]

----------------------------------------------------------------------------
\* The inputs: prompt texts and raw records.

Pieces ==
    { ANY_PLAYER, ANYPLAYER, <<"<", "A", "N", "Y">>,
      <<"P", "L", "A", "Y", "E", "R", ">">>, <<"a">> }

RECURSIVE TextsUpTo(_)
TextsUpTo(n) ==
    IF n = 0 THEN {<<>>}
    ELSE LET S == TextsUpTo(n - 1) IN S \cup {s \o q : s \in S, q \in Pieces}

Texts == TextsUpTo(MaxPieces)

Quip(c) == StrV(<<"q", c>>)

\* A record of the version 1 shape.
V1Record(id, p, x) == [id |-> id, prompt |-> StrV(p), x |-> BoolV(x)]

\* A record of the version 3 shape, as QuipPromptV3.to_pet_entry writes it.
V3Record(id, p, ipn, quips) ==
    [id |-> id, includesPlayerName |-> BoolV(ipn), prompt |-> StrV(p),
     safetyQuips |-> ListV(quips), us |-> BoolV(TRUE), x |-> BoolV(TRUE)]

\* A row csv.DictReader yields for a file serialize_to_csv wrote: every
\* value is text.
CsvRow(id, p, ipn) ==
    [id |-> StrV(id), x |-> StrV(PyStr(BoolV(FALSE))), prompt |-> StrV(p),
     includes_player_name |-> StrV(PyStr(BoolV(ipn))),
     us |-> StrV(PyStr(BoolV(FALSE))),
     safety_quip_1 |-> Quip("1"), safety_quip_2 |-> Quip("2"),
     safety_quip_3 |-> Quip("3")]

ThreeQuips == <<Quip("1"), Quip("2"), Quip("3")>>

IdTexts == { <<"1">>, <<"0">>, <<"1", "0">>, <<"-", "3">>, <<"0", "0", "7">>,
             <<"-", "0">>, <<"+", "1", "2">>, <<" ", "4">>, <<"1", "_", "0">>,
             <<"x">>, <<>> }

\* Records that are not of a known shape, or only partly.
OddRecords ==
    { <<>>,
      [includesPlayerName |-> BoolV(TRUE)],
      [includesPlayerName |-> BoolV(FALSE), id |-> StrV(<<"1">>),
       prompt |-> StrV(ANYPLAYER), x |-> BoolV(FALSE)],
      [includes_player_name |-> BoolV(TRUE)],
      [includes_player_name |-> BoolV(TRUE), id |-> StrV(<<"5">>),
       prompt |-> StrV(ANYPLAYER)],
      [prompt |-> StrV(<<"a">>)],
      [id |-> IntV(1), x |-> BoolV(FALSE)],
      [id |-> IntV(1), prompt |-> StrV(ANY_PLAYER)],
      [prompt |-> StrV(ANYPLAYER), safety_quip_1 |-> Quip("1")] }

Entries ==
    {V1Record(IntV(1), p, FALSE) : p \in Texts}
    \cup {V3Record(StrV(<<"1">>), p, FALSE, ThreeQuips) : p \in Texts}
    \cup {CsvRow(<<"1">>, p, FALSE) : p \in Texts}
    \cup {V3Record(StrV(i), ANYPLAYER, TRUE, <<Quip("1")>>) : i \in IdTexts}
    \cup {V1Record(StrV(i), ANY_PLAYER, TRUE) : i \in IdTexts}
    \cup {V3Record(IntV(7), <<"a">>, TRUE, <<>>)}
    \cup {CsvRow(<<"2">>, p, TRUE) : p \in {ANYPLAYER, <<"a">>}}
    \cup OddRecords

----------------------------------------------------------------------------
\* Specification SpecPrompt: one raw record, the entity built from it, and
\* the conversions applied to that entity.

NoEntry == <<>>
\* No file at the output path, nothing serialized, no reader built from CSV.
NoFile == [exists |-> FALSE]
NoOutput == <<"none">>
NoReader == [loaded |-> FALSE]

IdleReader ==
    /\ data = <<>> /\ target_version = NoVersion /\ quip_prompts = <<>>
    /\ pc = "idle" /\ op = "none" /\ to_version_arg = NoVersion
    /\ error = "none" /\ pet_out = NoOutput /\ csvfile = NoFile
    /\ csv_reader = NoReader

InitPrompt ==
    /\ IdleReader
    /\ entry \in Entries
    /\ ver = 0
    /\ hist = <<>>
    /\ perr = "none"

\* hist with one more entity, the oldest dropped beyond MaxHist.
Push(h, name, e) ==
    LET l == Append(h, [op |-> name, e |-> e])
    IN  IF Len(l) > MaxHist THEN Tail(l) ELSE l

\* The outcome r of operation name becomes the state.
Record(name, r) ==
    IF r.err = "none"
    THEN /\ hist' = Push(hist, name, r.val)
         /\ perr' = "none"
    ELSE /\ hist' = Push(hist, name, [cls |-> "none"])
         /\ perr' = r.err

Fresh == hist = <<>> /\ perr = "none"
Current == hist[Len(hist)].e

InferPromptVersion ==
    /\ Fresh
    /\ ver' = infer_prompt_version(entry)
    /\ Record("infer_prompt_version",
              IF infer_prompt_version(entry) = 0
              THEN Raise("UnknownPromptVersionError") ELSE Ok([cls |-> "none"]))
    /\ UNCHANGED <<entry, readerVars>>

V1FromPetEntry ==
    /\ Fresh
    /\ Record("V1.from_pet_entry", QuipPromptV1_from_pet_entry(entry))
    /\ UNCHANGED <<entry, ver, readerVars>>

V3FromPetEntry ==
    /\ Fresh
    /\ Record("V3.from_pet_entry", QuipPromptV3_from_pet_entry(entry))
    /\ UNCHANGED <<entry, ver, readerVars>>

V3FromCsvEntry ==
    /\ Fresh
    /\ Record("V3.from_csv_entry", QuipPromptV3_from_csv_entry(entry))
    /\ UNCHANGED <<entry, ver, readerVars>>

HasEntity == hist # <<>> /\ perr = "none" /\ Current.cls \in {"V1", "V3"}

ToQuiplashV1 ==
    /\ HasEntity
    /\ Record("to_quiplashv1", to_quiplashv1(Current))
    /\ UNCHANGED <<entry, ver, readerVars>>

ToQuiplashV3 ==
    /\ HasEntity
    /\ Record("to_quiplashv3", to_quiplashv3(Current))
    /\ UNCHANGED <<entry, ver, readerVars>>

NextPrompt ==
    \/ InferPromptVersion
    \/ V1FromPetEntry
    \/ V3FromPetEntry
    \/ V3FromCsvEntry
    \/ ToQuiplashV1
    \/ ToQuiplashV3

SpecPrompt == InitPrompt /\ [][NextPrompt]_vars

----------------------------------------------------------------------------
\* The readers.

\* QuiplashReaderV1.read / QuiplashReaderV3.read: every item of the content
\* list is built and appended in turn; an exception leaves the loop.
RECURSIVE read(_, _, _)
read(version, contents, prompts) ==
    IF contents = <<>> THEN [err |-> "none", prompts |-> prompts]
    ELSE LET q == IF version = 3 THEN QuipPromptV3_from_pet_entry(Head(contents))
                  ELSE QuipPromptV1_from_pet_entry(Head(contents))
         IN  IF q.err # "none" THEN [err |-> q.err, prompts |-> prompts]
             ELSE read(version, Tail(contents), Append(prompts, q.val))

\* The index of the first entity whose conversion raises, 0 if none does.
FirstRaising(prompts, version) ==
    LET bad == {i \in 1..Len(prompts) : to_version(prompts[i], version).err # "none"}
    IN  IF bad = {} THEN 0 ELSE CHOOSE i \in bad : \A j \in bad : i <= j

\* self.serialize(to_version): the content list handed to json.dumps. The
\* conversion is to self.target_version; the argument is not read.
serialize(version, prompts, to_version_) ==
    LET k == FirstRaising(prompts, version)
    IN  IF k # 0 THEN Raise(to_version(prompts[k], version).err)
        ELSE Ok([i \in 1..Len(prompts) |->
                    to_pet_entry(to_version(prompts[i], version).val)])

\* dataclasses.asdict(obj) as the list of its (field, value) pairs, in the
\* order of the dataclass's fields.
asdict(obj) ==
    IF obj.cls = "V1"
    THEN << <<"id", obj.id>>, <<"x", obj.x>>, <<"prompt", obj.prompt>> >>
    ELSE << <<"id", obj.id>>, <<"x", obj.x>>, <<"prompt", obj.prompt>>,
            <<"includes_player_name", obj.includes_player_name>>,
            <<"safety_quips", obj.safety_quips>>, <<"us", obj.us>> >>

\* field_name.removesuffix('s'), over the fields of the dataclasses.
removesuffix_s(field_name) ==
    IF field_name = "safety_quips" THEN "safety_quip"
    ELSE IF field_name = "us" THEN "u"
    ELSE field_name

RECURSIVE FlattenLists(_)
FlattenLists(pairs) ==
    IF pairs = <<>> THEN <<>>
    ELSE LET field_name == Head(pairs)[1]
             items == Head(pairs)[2][2]
         IN  [i \in 1..Len(items) |->
                 <<removesuffix_s(field_name) \o "_" \o ToString(i), items[i]>>]
             \o FlattenLists(Tail(pairs))

IsListPair(pair) == IsList(pair[2])
IsScalarPair(pair) == ~IsList(pair[2])

\* as_csv_dict(obj): the list-valued fields are deleted and their items
\* added, numbered from 1, after the fields that stay.
as_csv_dict(obj) ==
    LET dct == asdict(obj)
    IN  SelectSeq(dct, IsScalarPair) \o FlattenLists(SelectSeq(dct, IsListPair))

Keys(dct) == [i \in 1..Len(dct) |-> dct[i][1]]
KeySet(dct) == {dct[i][1] : i \in 1..Len(dct)}
ValueOf(dct, key) == dct[CHOOSE i \in 1..Len(dct) : dct[i][1] = key][2]

\* What csv.writer writes for a value: nothing for None, str(value) otherwise.
Cell(v) == IF IsNone(v) THEN <<>> ELSE PyStr(v)

\* DictWriter.writerow(rowdict): ValueError when rowdict has a key that is
\* no fieldname; a fieldname rowdict lacks is written empty.
writerow(fieldnames, rowdict) ==
    IF \E k \in KeySet(rowdict) : \A i \in 1..Len(fieldnames) : fieldnames[i] # k
    THEN Raise("ValueError")
    ELSE Ok([i \in 1..Len(fieldnames) |->
                IF fieldnames[i] \in KeySet(rowdict)
                THEN Cell(ValueOf(rowdict, fieldnames[i])) ELSE <<>>])

CsvFile(header, rows) == [exists |-> TRUE, header |-> header, rows |-> rows]

\* The rows written by the loop over self.quip_prompts, up to the first
\* row that raises.
RECURSIVE WriteRows(_, _, _)
WriteRows(fieldnames, prompts, rows) ==
    IF prompts = <<>> THEN [err |-> "none", file |-> CsvFile(fieldnames, rows)]
    ELSE LET r == writerow(fieldnames, as_csv_dict(Head(prompts)))
         IN  IF r.err # "none"
             THEN [err |-> r.err, file |-> CsvFile(fieldnames, rows)]
             ELSE WriteRows(fieldnames, Tail(prompts), Append(rows, r.val))

\* A variant of serialize_to_csv that opens the file and writes the header
\* before it looks at the first prompt.
serialize_to_csv_open_first(prompts, to_version_) ==
    IF prompts = <<>> THEN [err |-> "IndexError", file |-> CsvFile(<<>>, <<>>)]
    ELSE LET first == to_version(prompts[1], to_version_)
         IN  IF first.err # "none" THEN [err |-> first.err, file |-> CsvFile(<<>>, <<>>)]
             ELSE WriteRows(Keys(as_csv_dict(first.val)), prompts, <<>>)

\* self.serialize_to_csv(path, to_version): the file at path afterwards,
\* and the exception raised, if any. The header comes from the first prompt
\* converted to to_version; the rows are the prompts as they are held.
serialize_to_csv(prompts, to_version_) ==
    IF prompts = <<>> THEN [err |-> "IndexError", file |-> NoFile]
    ELSE LET first == to_version(prompts[1], to_version_)
         IN  IF first.err # "none" THEN [err |-> first.err, file |-> NoFile]
             ELSE LET first_quip == as_csv_dict(first.val)
                  IN  IF \E i \in 1..Len(first_quip) : IsList(first_quip[i][2])
                      THEN [err |-> "TypeError", file |-> NoFile]
                      ELSE WriteRows(Keys(first_quip), prompts, <<>>)

\* self.load_csv_row(row)
load_csv_row(reader, row) ==
    IF IsNone(reader.csv_fields) THEN [err |-> "RowImportError", reader |-> reader]
    ELSE [err |-> "none", reader |-> reader]

RECURSIVE LoadRows(_, _)
LoadRows(reader, rows) ==
    IF rows = <<>> THEN [err |-> "none", reader |-> reader]
    ELSE LET r == load_csv_row(reader, Head(rows))
         IN  IF r.err # "none" THEN r ELSE LoadRows(r.reader, Tail(rows))

\* cls.from_csv_file(path): a new reader, then load_csv(path) on it.
from_csv_file(file) ==
    LET c == [loaded |-> TRUE, quip_prompts |-> <<>>, csv_fields |-> ListV(<<>>)]
    IN  LoadRows([c EXCEPT !.csv_fields = ListV(file.header)],
                 [i \in 1..Len(file.rows) |->
                     [j \in 1..Len(file.header) |-> <<file.header[j], file.rows[i][j]>>]])

----------------------------------------------------------------------------
\* The input documents.

DocRecords ==
    { V1Record(IntV(1), <<"a">> \o ANY_PLAYER, FALSE),
      V1Record(IntV(2), ANYPLAYER, TRUE),
      V3Record(StrV(<<"1">>), ANYPLAYER, FALSE, ThreeQuips),
      V3Record(StrV(<<"0", "0", "7">>), <<"a">>, TRUE, <<Quip("1")>>),
      V3Record(StrV(<<"x">>), ANY_PLAYER, TRUE, ThreeQuips \o <<Quip("4")>>),
      [id |-> StrV(<<"3">>), includesPlayerName |-> BoolV(TRUE),
       prompt |-> StrV(ANYPLAYER), x |-> BoolV(FALSE)],
      [includes_player_name |-> BoolV(TRUE), id |-> StrV(<<"5">>),
       prompt |-> StrV(ANYPLAYER)],
      [includesPlayerName |-> BoolV(TRUE)],
      [prompt |-> StrV(<<"a">>)],
      [id |-> IntV(1), x |-> BoolV(FALSE)],
      <<>> }

Docs == UNION {[1..n -> DocRecords] : n \in 0..MaxDoc}

----------------------------------------------------------------------------
\* Specification Spec: one run of a reader. QuiplashReaderV1(path) or
\* QuiplashReaderV3(path) loads the document; then one of the serializers
\* is called; a CSV file that was written is loaded by from_csv_file.

IdlePrompt == entry = NoEntry /\ ver = 0 /\ hist = <<>> /\ perr = "none"

Init ==
    /\ data \in Docs
    /\ target_version \in {1, 3}
    /\ quip_prompts = <<>>
    /\ pc = "new"
    /\ op = "none"
    /\ to_version_arg = NoVersion
    /\ error = "none"
    /\ pet_out = NoOutput
    /\ csvfile = NoFile
    /\ csv_reader = NoReader
    /\ IdlePrompt

\* The version arguments a caller passes: None, 1, 3, and one that is neither.
VersionArgs == {NoVersion, 1, 2, 3}

\* QuiplashReader.__init__(pet_path): load_pet, which reads the document.
LoadPet ==
    /\ pc = "new"
    /\ LET r == read(target_version, data, <<>>)
       IN  /\ quip_prompts' = r.prompts
           /\ error' = r.err
           /\ pc' = IF r.err = "none" THEN "loaded" ELSE "failed"
    /\ op' = "load_pet"
    /\ UNCHANGED <<data, target_version, to_version_arg, pet_out, csvfile,
                   csv_reader, promptVars>>

Serialize(v) ==
    /\ pc = "loaded"
    /\ LET r == serialize(target_version, quip_prompts, v)
       IN  /\ pet_out' = IF r.err = "none" THEN ListV(r.val) ELSE NoOutput
           /\ error' = r.err
           /\ pc' = IF r.err = "none" THEN "done" ELSE "failed"
    /\ op' = "serialize"
    /\ to_version_arg' = v
    /\ UNCHANGED <<data, target_version, quip_prompts, csvfile, csv_reader,
                   promptVars>>

SerializeToCsv(v) ==
    /\ pc = "loaded"
    /\ LET r == serialize_to_csv(quip_prompts, v)
       IN  /\ csvfile' = r.file
           /\ error' = r.err
           /\ pc' = IF r.err = "none" THEN "done" ELSE "failed"
    /\ op' = "serialize_to_csv"
    /\ to_version_arg' = v
    /\ UNCHANGED <<data, target_version, quip_prompts, pet_out, csv_reader,
                   promptVars>>

LoadCsv ==
    /\ pc = "done"
    /\ op = "serialize_to_csv"
    /\ LET r == from_csv_file(csvfile)
       IN  /\ csv_reader' = r.reader
           /\ error' = r.err
           /\ pc' = IF r.err = "none" THEN "reloaded" ELSE "failed"
    /\ op' = "from_csv_file"
    /\ UNCHANGED <<data, target_version, quip_prompts, to_version_arg, pet_out,
                   csvfile, promptVars>>

Next ==
    \/ LoadPet
    \/ \E v \in VersionArgs : Serialize(v)
    \/ \E v \in VersionArgs : SerializeToCsv(v)
    \/ LoadCsv

Spec == Init /\ [][Next]_vars

----------------------------------------------------------------------------
\* Properties of SpecPrompt.

HasAll(d, keys) == \A k \in keys : Has(d, k)
Inferred == hist # <<>> /\ hist[1].op = "infer_prompt_version"

\* C1: infer_prompt_version returns 3 for every record that has a field
\* includesPlayerName; else 1 for every record that has id, prompt and x;
\* and raises UnknownPromptVersionError for every other record.
C1_DetectorPrecedence ==
    Inferred =>
        IF Has(entry, "includesPlayerName") THEN ver = 3 /\ perr = "none"
        ELSE IF HasAll(entry, {"id", "prompt", "x"}) THEN ver = 1 /\ perr = "none"
        ELSE ver = 0 /\ perr = "UnknownPromptVersionError"

\* hist[i] is a V3 entity built by a loader or by the conversion of a V1 entity.
BuiltV3(i) ==
    /\ hist[i].e.cls = "V3"
    /\ \/ hist[i].op \in {"V3.from_pet_entry", "V3.from_csv_entry"}
       \/ hist[i].op = "to_quiplashv3" /\ i > 1 /\ hist[i - 1].e.cls = "V1"

\* C2: every V3 entity built by from_pet_entry, from_csv_entry or
\* to_quiplashv3 of a V1 entity has includes_player_name equal to
\* "<ANYPLAYER> occurs in its prompt".
C2_IncludesPlayerNameRecomputed ==
    \A i \in 1..Len(hist) :
        BuiltV3(i) =>
            hist[i].e.includes_player_name =
                BoolV(IsStr(hist[i].e.prompt)
                      /\ Contains(hist[i].e.prompt[2], ANYPLAYER))

\* hist[i] is a V3 entity, hist[i+1] its to_quiplashv1 and hist[i+2] the
\* to_quiplashv3 of that.
RoundTripV3(i) ==
    /\ i + 2 <= Len(hist)
    /\ hist[i].e.cls = "V3"
    /\ hist[i + 1].op = "to_quiplashv1" /\ hist[i + 1].e.cls = "V1"
    /\ hist[i + 2].op = "to_quiplashv3" /\ hist[i + 2].e.cls = "V3"

SamePromptAndId(a, b) == a.prompt = b.prompt /\ a.id = b.id

\* The decimal numeral of an integer as str() writes it.
IsCanonicalInt(s) ==
    /\ s # <<>>
    /\ LET body == IF s[1] = "-" THEN Tail(s) ELSE s
       IN  /\ body # <<>>
           /\ \A i \in 1..Len(body) : IsDigit(body[i])
           /\ Len(body) > 1 => body[1] # "0"
           /\ s[1] = "-" => body # <<"0">>

\* C5 (as stated): for every V3 entity e whose id is a string that int()
\* parses, to_quiplashv3(to_quiplashv1(e)) has the prompt and the id of e.
C5_RoundTripV3 ==
    \A i \in 1..Len(hist) :
        (/\ RoundTripV3(i)
         /\ IsStr(hist[i].e.id)
         /\ ParseInt(hist[i].e.id[2]).err = "none")
        => SamePromptAndId(hist[i + 2].e, hist[i].e)

CanonicalCompact(e) ==
    /\ IsStr(e.id) /\ IsCanonicalInt(e.id[2])
    /\ IsStr(e.prompt) /\ ~Contains(e.prompt[2], ANY_PLAYER)

\* C5 (amended): for every V3 entity e whose id is the decimal numeral of an
\* integer as str() writes it and whose prompt holds no spaced placeholder,
\* to_quiplashv3(to_quiplashv1(e)) has the prompt and the id of e.
C5_RoundTripV3Canonical ==
    \A i \in 1..Len(hist) :
        (RoundTripV3(i) /\ CanonicalCompact(hist[i].e))
        => SamePromptAndId(hist[i + 2].e, hist[i].e)

\* A round trip of a V3 entity whose compact placeholder was respelled.
C5_Witness ==
    \E i \in 1..Len(hist) :
        /\ RoundTripV3(i) /\ CanonicalCompact(hist[i].e)
        /\ Contains(hist[i].e.prompt[2], ANYPLAYER)
        /\ Contains(hist[i + 1].e.prompt[2], ANY_PLAYER)

\* hist[i] is a V1 entity, hist[i+1] its to_quiplashv3 (spaced to compact)
\* and hist[i+2] the to_quiplashv1 of that (compact to spaced).
PairAt(i) ==
    /\ i + 2 <= Len(hist)
    /\ hist[i].e.cls = "V1"
    /\ hist[i + 1].op = "to_quiplashv3" /\ hist[i + 1].e.cls = "V3"
    /\ hist[i + 2].op = "to_quiplashv1" /\ hist[i + 2].e.cls = "V1"

\* Applying the pair of replacements to its own result changes nothing.
SecondPairChangesNothing ==
    \A i \in 1..Len(hist) :
        (PairAt(i) /\ PairAt(i + 2)) => hist[i + 4].e.prompt = hist[i + 2].e.prompt

\* C6 (as stated): for every prompt text, replacing the spaced placeholder
\* by the compact one and then the compact by the spaced restores the text,
\* and applying the pair a second time changes nothing.
C6_SubstitutionBijection ==
    /\ \A i \in 1..Len(hist) :
           PairAt(i) => hist[i + 2].e.prompt = hist[i].e.prompt
    /\ SecondPairChangesNothing

\* C6 (amended): for every prompt text that holds no compact placeholder,
\* replacing the spaced placeholder by the compact one and then the compact
\* by the spaced restores the text; for every prompt text, applying the pair
\* a second time changes nothing.
C6_SubstitutionRestoresSpaced ==
    /\ \A i \in 1..Len(hist) :
           (PairAt(i) /\ ~Contains(hist[i].e.prompt[2], ANYPLAYER))
           => hist[i + 2].e.prompt = hist[i].e.prompt
    /\ SecondPairChangesNothing

\* The pair applied twice to a text that holds the spaced placeholder only.
C6_Witness ==
    \E i \in 1..Len(hist) :
        /\ PairAt(i) /\ PairAt(i + 2)
        /\ Contains(hist[i].e.prompt[2], ANY_PLAYER)
        /\ ~Contains(hist[i].e.prompt[2], ANYPLAYER)
        /\ Contains(hist[i + 1].e.prompt[2], ANYPLAYER)

----------------------------------------------------------------------------
\* Properties of Spec.

Loaded == pc \in {"loaded", "done", "reloaded"}

\* A list of 3 entries, the entries the raw record lacks being the defaults.
ThreeWithDefaults(quips, raw) ==
    /\ IsList(quips)
    /\ Len(quips[2]) = 3
    /\ \A j \in 1..3 :
           (~Has(raw, "safetyQuips") \/ Len(raw["safetyQuips"][2]) < j)
           => quips[2][j] = SAFETY_QUIPS_DEFAULT[j]

\* C3: every V3 entity a reader holds after loading, and every V3 entity
\* to_quiplashv3 returns, has a safety_quips list of exactly 3 entries, the
\* entries the raw record lacks being filled from the defaults.
C3_SafetyQuipsThree ==
    /\ (target_version = 3 /\ Loaded) =>
           \A i \in 1..Len(quip_prompts) :
               ThreeWithDefaults(quip_prompts[i].safety_quips, data[i])
    /\ (target_version = 3 /\ op = "serialize" /\ pc = "done") =>
           \A i \in 1..Len(pet_out[2]) :
               ThreeWithDefaults(pet_out[2][i].safetyQuips, data[i])

V1ShapedDoc ==
    \A i \in 1..Len(data) :
        DOMAIN data[i] = {"id", "prompt", "x"} /\ IsInt(data[i].id)

\* The version 3 record the conversion is to emit for a version 1 record.
ExpectedV3(raw) ==
    LET prompt == Replace(raw.prompt[2], ANY_PLAYER, ANYPLAYER)
    IN  [id |-> StrV(IntToChars(raw.id[2])),
         includesPlayerName |-> BoolV(Contains(prompt, ANYPLAYER)),
         prompt |-> StrV(prompt),
         safetyQuips |-> ListV(SAFETY_QUIPS_DEFAULT),
         us |-> BoolV(FALSE),
         x |-> raw.x]

\* C4: for every document of V1-shaped records, QuiplashReaderV3 followed by
\* serialize() emits, in input order, one record per input record: id the
\* string form of the integer id, prompt with the spaced placeholder made
\* compact, includesPlayerName recomputed, the default safetyQuips, us
\* false, x copied.
C4_ConvertToV3Json ==
    (/\ target_version = 3 /\ op = "serialize" /\ to_version_arg = NoVersion
     /\ V1ShapedDoc)
    => /\ pc = "done"
       /\ pet_out = ListV([i \in 1..Len(data) |-> ExpectedV3(data[i])])

\* C7: writing a non-empty dataset with serialize_to_csv and loading the
\* file with from_csv_file yields one entity per written row, in order,
\* whose records equal the records written.
C7_CsvRoundTrip ==
    op = "from_csv_file" =>
        /\ pc = "reloaded"
        /\ Len(csv_reader.quip_prompts) = Len(csvfile.rows)
        /\ Len(csv_reader.quip_prompts) = Len(quip_prompts)
        /\ \A i \in 1..Len(quip_prompts) :
               to_pet_entry(csv_reader.quip_prompts[i]) = to_pet_entry(quip_prompts[i])

\* A record that matches neither fingerprint.
MatchesNeither(raw) ==
    ~Has(raw, "includesPlayerName") /\ ~HasAll(raw, {"id", "prompt", "x"})

\* A record with id, prompt and x whose id int() accepts.
Complete(raw) ==
    HasAll(raw, {"id", "prompt", "x"}) /\ PyInt(raw["id"]).err = "none"

\* The first record matches neither fingerprint at k, the ones before it
\* being complete.
FirstUnknownAt(k) ==
    /\ k \in 1..Len(data)
    /\ MatchesNeither(data[k])
    /\ \A j \in 1..(k - 1) : Complete(data[j])

\* C8: in both JSON loaders, a record that matches neither fingerprint makes
\* loading fail with UnknownPromptVersionError at the first such record: no
\* later record is constructed and nothing is serialized.
C8_UnknownRecordAborts ==
    \A k \in 1..Len(data) :
        (FirstUnknownAt(k) /\ pc # "new")
        => /\ pc = "failed"
           /\ op = "load_pet"
           /\ error = "UnknownPromptVersionError"
           /\ Len(quip_prompts) = k - 1
           /\ pet_out = NoOutput
           /\ csvfile = NoFile

\* C9: serialize_to_csv on a reader whose dataset is empty, for any output
\* version, ends in an error and writes neither header nor rows.
C9_EmptyCsvIsError ==
    (op = "serialize_to_csv" /\ quip_prompts = <<>>)
    => /\ pc = "failed"
       /\ error # "none"
       /\ csvfile = NoFile

\* serialize_to_csv was called on an empty dataset and raised.
C9_Witness ==
    /\ op = "serialize_to_csv"
    /\ quip_prompts = <<>>
    /\ to_version_arg = 3
    /\ error = "IndexError"

PetFields(version) ==
    IF version = 1 THEN {"id", "prompt", "x"}
    ELSE {"id", "includesPlayerName", "prompt", "safetyQuips", "us", "x"}

AllConvert(version) ==
    \A i \in 1..Len(quip_prompts) : to_version(quip_prompts[i], version).err = "none"

\* The CSV row of an entity converted to a version.
ConvertedRow(q, version) ==
    LET dct == as_csv_dict(to_version(q, version).val)
    IN  [j \in 1..Len(dct) |-> Cell(dct[j][2])]

\* C10: for v in {1, 3}, serialize(to_version=v) emits only version-v
\* records, and serialize_to_csv(path, to_version=v) writes for every entity
\* the flattened form of that entity converted to version v, every row under
\* the header's columns.
C10_ExplicitOutputVersion ==
    /\ (op = "serialize" /\ to_version_arg \in {1, 3} /\ pc = "done") =>
           \A i \in 1..Len(pet_out[2]) :
               DOMAIN pet_out[2][i] = PetFields(to_version_arg)
    /\ (/\ op = "serialize_to_csv" /\ to_version_arg \in {1, 3}
        /\ quip_prompts # <<>> /\ AllConvert(to_version_arg)) =>
           /\ error = "none"
           /\ Len(csvfile.rows) = Len(quip_prompts)
           /\ \A i \in 1..Len(quip_prompts) :
                  /\ csvfile.rows[i] = ConvertedRow(quip_prompts[i], to_version_arg)
                  /\ Len(csvfile.rows[i]) = Len(csvfile.header)

====
